---- MODULE Spec2Model ----
(***************************************************************************)
(* Model of the reconnaissance scripts port-recon.py and                   *)
(* enum_from_list.py: the target parsers, the per-target pipelines         *)
(* (handle_target / test_port) and the thread-pool orchestration in the    *)
(* two main functions.                                                     *)
(*                                                                         *)
(* Text is modelled as a sequence of one-character strings, so that the    *)
(* Python string operations (strip, split, rsplit, isdigit, int) are       *)
(* computed character by character.                                        *)
(***************************************************************************)
EXTENDS Integers, Sequences, FiniteSets, TLC

VARIABLES
    script,     \* which script runs: "port_recon" or "enum"
    mainPc,     \* position of main
    targets,    \* the list of targets built by the parser
    nread,      \* number of input lines consumed by the parser
    args,       \* parsed command line of port-recon.py (threads: pool size)
    fut,        \* per submitted target: state of its future in the pool
    summary,    \* rows collected by main, in collection order
    order,      \* index of the future each collected row came from
    report,     \* the report file: whether it is written, and its rows
    outdir,     \* whether main has created the output directory
    hpc,        \* position of one handle_target call
    result,     \* the result dict of that handle_target call
    sock,       \* the socket of that call: "none", "open" or "closed"
    invoked,    \* external tools that call has started, in order
    events,     \* how each tool lookup or tool run of that call ended
    cands       \* the candidate sockets tcp_connect has created, in order

vars == <<script, mainPc, targets, nread, args, fut, summary, order, report,
          outdir, hpc, result, sock, invoked, events, cands>>

\* ---------------------------------------------------------------- bounds
MaxLineLen == 3
MaxLines == 2
MaxTargets == 2
MaxThreads == 2
MaxCandidates == 2

\* ------------------------------------------------------------ characters
\* "s" stands for the superscript digit U+00B2: str.isdigit() accepts it,
\* int() does not.
\* Chars is the alphabet of the input lines the parsers are run on.
Chars == {"a", "0", "1", ":", ",", " ", "/", "#", "s"}
Whitespace == {" "}
AsciiDigits == {"0", "1", "2", "3", "4", "8"}
UnicodeDigits == AsciiDigits \cup {"s"}

RECURSIVE StringsUpTo(_)
StringsUpTo(n) ==
    IF n = 0 THEN {<<>>}
    ELSE LET shorter == StringsUpTo(n - 1)
         IN shorter \cup {Append(s, c) : s \in shorter, c \in Chars}

Lines == StringsUpTo(MaxLineLen)

\* ------------------------------------------------- Python string methods
RECURSIVE LStrip(_)
LStrip(s) ==
    IF s # <<>> /\ Head(s) \in Whitespace THEN LStrip(Tail(s)) ELSE s

RECURSIVE RStrip(_)
RStrip(s) ==
    IF s # <<>> /\ s[Len(s)] \in Whitespace
    THEN RStrip(SubSeq(s, 1, Len(s) - 1)) ELSE s

Strip(s) == RStrip(LStrip(s))

RECURSIVE Count(_, _)
Count(s, c) ==
    IF s = <<>> THEN 0
    ELSE (IF Head(s) = c THEN 1 ELSE 0) + Count(Tail(s), c)

Contains(s, c) == \E i \in 1..Len(s) : s[i] = c

\* s.split(sep): every separator cuts, empty pieces are kept
RECURSIVE SplitOn(_, _)
SplitOn(s, sep) ==
    IF ~Contains(s, sep) THEN <<s>>
    ELSE LET i == CHOOSE k \in 1..Len(s) :
                     s[k] = sep /\ \A j \in 1..(k - 1) : s[j] # sep
         IN <<SubSeq(s, 1, i - 1)>> \o SplitOn(SubSeq(s, i + 1, Len(s)), sep)

\* s.split(sep, 1)[0]
BeforeFirst(s, sep) == SplitOn(s, sep)[1]

\* s.rsplit(sep, 1): one piece when sep is absent, else two
RSplit1(s, sep) ==
    IF ~Contains(s, sep) THEN <<s>>
    ELSE LET i == CHOOSE k \in 1..Len(s) :
                     s[k] = sep /\ \A j \in (k + 1)..Len(s) : s[j] # sep
         IN <<SubSeq(s, 1, i - 1), SubSeq(s, i + 1, Len(s))>>

\* s.split() and re.split(r'\s+', s) on a stripped, non-empty s
RECURSIVE SplitWs(_)
SplitWs(s) ==
    LET t == LStrip(s) IN
    IF t = <<>> THEN <<>>
    ELSE IF \A i \in 1..Len(t) : t[i] \notin Whitespace THEN <<t>>
    ELSE LET i == CHOOSE k \in 1..Len(t) :
                     t[k] \in Whitespace
                     /\ \A j \in 1..(k - 1) : t[j] \notin Whitespace
         IN <<SubSeq(t, 1, i - 1)>> \o SplitWs(SubSeq(t, i, Len(t)))

IsDigit(s) == s # <<>> /\ \A i \in 1..Len(s) : s[i] \in UnicodeDigits

\* int(s) raises ValueError unless s, stripped, is a decimal literal
IntParses(s) ==
    LET t == Strip(s) IN
    t # <<>> /\ \A i \in 1..Len(t) : t[i] \in AsciiDigits

DigitValue(c) ==
    CASE c = "0" -> 0 [] c = "1" -> 1 [] c = "2" -> 2
      [] c = "3" -> 3 [] c = "4" -> 4 [] c = "8" -> 8

RECURSIVE IntOfDigits(_)
IntOfDigits(s) ==
    IF s = <<>> THEN 0
    ELSE 10 * IntOfDigits(SubSeq(s, 1, Len(s) - 1)) + DigitValue(s[Len(s)])

IntValue(s) == IntOfDigits(Strip(s))

\* [p.strip() for p in parts if p.strip()]
RECURSIVE StripNonEmpty(_)
StripNonEmpty(parts) ==
    IF parts = <<>> THEN <<>>
    ELSE (IF Strip(Head(parts)) # <<>> THEN <<Strip(Head(parts))>> ELSE <<>>)
         \o StripNonEmpty(Tail(parts))

Target(h, p) == [host |-> h, port |-> p]

\* ------------------------------------------------- port-recon.py parsing
\* The outcome of one iteration of the line loop of parse_input_file:
\* "skip" (nothing appended), "target" (one target appended) or "raise".
Skip == [kind |-> "skip"]
Raise == [kind |-> "raise"]
Found(h, p) == [kind |-> "target", target |-> Target(h, p)]

\* int(port) after port.isdigit() succeeded
Accept(h, p) == IF IntParses(p) THEN Found(h, IntValue(p)) ELSE Raise

WhitespaceForm(line) ==
    LET parts == SplitWs(line) IN
    IF Len(parts) >= 2 /\ IsDigit(parts[2])
    THEN Accept(parts[1], parts[2]) ELSE Skip

CommaForm(line) ==
    IF Contains(line, ",")
    THEN LET parts == StripNonEmpty(SplitOn(line, ",")) IN
         IF Len(parts) >= 2 /\ IsDigit(parts[2])
         THEN Accept(parts[1], parts[2]) ELSE WhitespaceForm(line)
    ELSE WhitespaceForm(line)

ColonForm(line) ==
    IF Contains(line, ":") /\ ~(Count(line, ":") > 1)
    THEN LET token == BeforeFirst(SplitWs(line)[1], "/")
             pieces == RSplit1(token, ":")
         IN IF Len(pieces) # 2 THEN Raise   \* host, port = ... cannot unpack
            ELSE IF IsDigit(pieces[2])
                 THEN Accept(Strip(pieces[1]), pieces[2])
                 ELSE CommaForm(line)
    ELSE CommaForm(line)

ParseLine(raw) ==
    LET line == Strip(raw) IN
    IF line = <<>> \/ Head(line) = "#" THEN Skip ELSE ColonForm(line)

\* ---------------------------------------------- enum_from_list.py parsing
\* One raw line through the list comprehension and the loop body of main.
EnumParseLine(raw) ==
    IF Strip(raw) = <<>> \/ (raw # <<>> /\ Head(raw) = "#") THEN Skip
    ELSE LET line == Strip(raw) IN
         IF Contains(line, ":")
         THEN LET pieces == SplitOn(line, ":") IN
              IF Len(pieces) # 2 THEN Raise
              ELSE Found(Strip(pieces[1]), Strip(pieces[2]))
         ELSE Skip

\* ------------------------------------------------------ values not in use
NotWritten == [written |-> FALSE, rows |-> <<>>]
Written(rows) == [written |-> TRUE, rows |-> rows]
NoArgs == [fuzz |-> FALSE, wordlist |-> FALSE, sqlmap |-> FALSE, threads |-> 0]
NoResult == [host |-> "", port |-> 0]
NoFutures == <<>>

PoolIdle ==
    /\ fut = NoFutures /\ summary = <<>> /\ order = <<>> /\ report = NotWritten
    /\ outdir = FALSE
CallIdle ==
    /\ hpc = "idle" /\ result = NoResult /\ sock = "none" /\ invoked = <<>>
    /\ events = <<>> /\ cands = <<>>

PoolVars == <<fut, summary, order, report, outdir>>
CallVars == <<hpc, result, sock, invoked, events, cands>>

Scripts == {"port_recon", "enum"}

\* ---------------------------------------------------------- the parsers
\* State before the first line of the input file is read.
InitParse ==
    /\ script \in Scripts
    /\ mainPc = "parse"
    /\ targets = <<>>
    /\ nread = 0
    /\ args = NoArgs
    /\ PoolIdle /\ CallIdle

\* One iteration of "for raw in f" in parse_input_file.
ParseInputFileLine(raw) ==
    /\ script = "port_recon" /\ mainPc = "parse" /\ nread < MaxLines
    /\ nread' = nread + 1
    /\ LET o == ParseLine(raw) IN
       /\ mainPc' = IF o.kind = "raise" THEN "raised" ELSE "parse"
       /\ targets' = IF o.kind = "target" THEN Append(targets, o.target)
                                          ELSE targets
    /\ UNCHANGED <<script, args, PoolVars, CallVars>>

\* One line of hosts.txt through the comprehension and loop of enum main.
EnumMainLine(raw) ==
    /\ script = "enum" /\ mainPc = "parse" /\ nread < MaxLines
    /\ nread' = nread + 1
    /\ LET o == EnumParseLine(raw) IN
       /\ mainPc' = IF o.kind = "raise" THEN "raised" ELSE "parse"
       /\ targets' = IF o.kind = "target" THEN Append(targets, o.target)
                                          ELSE targets
    /\ UNCHANGED <<script, args, PoolVars, CallVars>>

\* End of the input file: the parser returns the list.
EndOfInput ==
    /\ mainPc = "parse"
    /\ mainPc' = "parsed"
    /\ UNCHANGED <<script, targets, nread, args, PoolVars, CallVars>>

NextParse ==
    \/ \E raw \in Lines : ParseInputFileLine(raw)
    \/ \E raw \in Lines : EnumMainLine(raw)
    \/ EndOfInput

SpecParse == InitParse /\ [][NextParse]_vars

\* --------------------------------------------------- port-recon.py config
HTTP_PORTS == {80, 8000, 8008, 8080, 8443, 443}
Tools == {"nmap", "httpx", "ffuf", "sqlmap"}

\* Hosts and ports of the targets the pipelines are run on.
Hosts == {"a", "b"}
Ports == {22, 80}
\* Text of an exception raised by the operating system (str(e)).
ExcMsgs == {"EACCES"}
\* What grab_banner can return: nothing, or the text the service sent.
Banners == {"", "SSH-2.0"}

NoFile == <<>>
\* os.path.join(os.path.join(base_outdir, host), f"{tool}_{host}_{port}.txt")
OutFile(tool, host, port) == <<host, tool, host, port>>
\* os.path.basename(path)
Basename(path) == IF path = NoFile THEN NoFile ELSE Tail(path)

\* The result dict handle_target starts from.
NewResult(host, port) ==
    [host |-> host, port |-> port, open |-> FALSE, banner |-> "",
     nmap |-> NoFile, httpx |-> NoFile, ffuf |-> NoFile, sqlmap |-> <<>>,
     error |-> ""]

\* shutil.which(tool): the binary is on PATH or it is not, read at each call.
Which(tool) == BOOLEAN

\* How a lookup or a run of an external tool ended: the binary was absent
\* from PATH, the process exited with code 0 or with another code, or
\* subprocess.run raised (TimeoutExpired, or any other exception).
RunEndings == {"exit0", "nonzero", "timeout"}
Event(tool, how) == [tool |-> tool, how |-> how]

\* A step of the pipeline yields the new result dict, the external tools it
\* started, how its lookups and runs ended, and the text of the exception it
\* raised ("" when it returned).
Outcome(r, ran, evs, exc) == [res |-> r, ran |-> ran, evs |-> evs, exc |-> exc]

\* run_nmap, run_httpx, run_ffuf: "" when the binary is absent or when
\* subprocess.run raises (timeout included), else the output file; the exit
\* code of the tool is not looked at.
RunTool(tool, host, port) ==
    {[out |-> NoFile, ran |-> <<>>, evs |-> <<Event(tool, "absent")>>] :
        w \in {x \in Which(tool) : ~x}}
    \cup {[out |-> IF how = "timeout" THEN NoFile
                   ELSE OutFile(tool, host, port),
           ran |-> <<tool>>, evs |-> <<Event(tool, how)>>] :
            how \in RunEndings, w \in {x \in Which(tool) : x}}

\* result["banner"] = grab_banner(sock)
BannerStep(r) ==
    {Outcome([r EXCEPT !.banner = b], <<>>, <<>>, "") : b \in Banners}

\* if port in HTTP_PORTS and which("httpx"): result["httpx"] = run_httpx(...)
HttpxStep(r) ==
    IF r.port \in HTTP_PORTS
    THEN {Outcome(r, <<>>, <<Event("httpx", "absent")>>, "") :
            w \in {x \in Which("httpx") : ~x}}
         \cup {Outcome([r EXCEPT !.httpx = t.out], t.ran, t.evs, "") :
                 t \in RunTool("httpx", r.host, r.port)}
    ELSE {Outcome(r, <<>>, <<>>, "")}

\* NmapStep recording an error when the binary is absent.
NmapStepAbsentFails(r) ==
    {Outcome([r EXCEPT !.error = "nmap not found"], <<>>,
             <<Event("nmap", "absent")>>, "") :
        w \in {x \in Which("nmap") : ~x}}
    \cup {Outcome([r EXCEPT !.nmap = t.out], t.ran, t.evs, "") :
            t \in RunTool("nmap", r.host, r.port)}

\* if which("nmap"): result["nmap"] = run_nmap(...)
NmapStep(r) ==
    {Outcome(r, <<>>, <<Event("nmap", "absent")>>, "") :
        w \in {x \in Which("nmap") : ~x}}
    \cup {Outcome([r EXCEPT !.nmap = t.out], t.ran, t.evs, "") :
            t \in RunTool("nmap", r.host, r.port)}

\* FfufStep without the test of do_fuzz.
FfufStepUnasked(r, a) ==
    IF r.port \in HTTP_PORTS
    THEN {Outcome([r EXCEPT !.ffuf = t.out], t.ran, t.evs, "") :
            t \in RunTool("ffuf", r.host, r.port)}
    ELSE {Outcome(r, <<>>, <<>>, "")}

\* if do_fuzz and port in HTTP_PORTS and wordlist: ...
FfufStep(r, a) ==
    IF a.fuzz /\ r.port \in HTTP_PORTS /\ a.wordlist
    THEN {Outcome([r EXCEPT !.ffuf = NoFile], <<>>,
                  <<Event("ffuf", "absent")>>, "") :
            w \in {x \in Which("ffuf") : ~x}}
         \cup {Outcome([r EXCEPT !.ffuf = t.out], t.ran, t.evs, "") :
                 t \in RunTool("ffuf", r.host, r.port)}
    ELSE {Outcome(r, <<>>, <<>>, "")}

\* discover_urls_from_httpx_file: open() of the file may raise; otherwise
\* the URLs found, of which those with a query string matter to sqlmap.
\* MaxUrls bounds the number of query URLs found in one httpx file.
MaxUrls == 1
Discoveries == {[raised |-> TRUE, queries |-> 0]}
               \cup {[raised |-> FALSE, queries |-> n] : n \in 0..MaxUrls}

\* run_sqlmap_on_urls: one sqlmap run per query URL; a run that raises
\* (timeout included) adds no path, any other run adds one, whatever its
\* exit code. Returns the number of paths, the number of runs and how each
\* run ended.
RunSqlmap(queries) ==
    {[paths |-> 0, runs |-> 0, evs |-> <<Event("sqlmap", "absent")>>] :
        w \in {x \in Which("sqlmap") : ~x}}
    \cup {[paths |-> Cardinality({i \in 1..queries : h[i] # "timeout"}),
           runs |-> queries,
           evs |-> [i \in 1..queries |-> Event("sqlmap", h[i])]] :
            h \in [1..queries -> RunEndings],
            w \in {x \in Which("sqlmap") : x}}

SqlmapName(host, port, k) == <<"sqlmap", host, port, k>>
RanTimes(tool, n) == [i \in 1..n |-> tool]

\* if do_sqlmap and result["httpx"]: ... ; an exception ends the try block
SqlmapStep(r, a) ==
    IF a.sqlmap /\ r.httpx # NoFile
    THEN UNION {
           IF d.raised
           THEN {Outcome(r, <<>>, <<>>, m) : m \in ExcMsgs}
           ELSE {Outcome(
                   IF q.paths > 0
                   THEN [r EXCEPT !.sqlmap =
                           [i \in 1..q.paths |-> SqlmapName(r.host, r.port, i)]]
                   ELSE r,
                   RanTimes("sqlmap", q.runs), q.evs, "") :
                       q \in RunSqlmap(d.queries)}
           : d \in Discoveries}
    ELSE {Outcome(r, <<>>, <<>>, "")}

\* except Exception as e: result["error"] = str(e)
ExceptClause(r, msg) == [r EXCEPT !.error = msg]

\* ------------------------------------------------ handle_target, whole call
\* The result dicts the try block can end with, from the dict r it starts
\* with: banner, httpx, nmap, ffuf, sqlmap, and the except clause.
AfterBanner(r) == {o.res : o \in BannerStep(r)}
AfterHttpx(r) == UNION {{o.res : o \in HttpxStep(x)} : x \in AfterBanner(r)}
AfterNmap(r) == UNION {{o.res : o \in NmapStep(x)} : x \in AfterHttpx(r)}
AfterFfuf(r, a) == UNION {{o.res : o \in FfufStep(x, a)} : x \in AfterNmap(r)}
TryBlock(r, a) ==
    UNION {{[res |-> IF o.exc = "" THEN o.res
                     ELSE ExceptClause(o.res, o.exc),
             exc |-> o.exc] : o \in SqlmapStep(x, a)} : x \in AfterFfuf(r, a)}

\* What a finished call leaves in its future: the returned dict or the
\* exception, the text of the exception raised in the call ("" when none
\* was), and whether the TCP connect of the call succeeded.
Returned(r, conn, exc) ==
    [st |-> "returned", res |-> r, exc |-> exc, connected |-> conn]
Raised(host, port, msg) ==
    [st |-> "raised", res |-> Target(host, port), exc |-> msg,
     connected |-> FALSE]

\* os.makedirs(hostdir) and tcp_connect run outside the try block:
\* socket.socket() is outside the try of tcp_connect, so both can raise.
HandleTarget(host, port, a) ==
    {Raised(host, port, m) : m \in ExcMsgs}
    \cup {Returned(NewResult(host, port), FALSE, "")}
    \cup {Returned(t.res, TRUE, t.exc) :
            t \in TryBlock([NewResult(host, port) EXCEPT !.open = TRUE], a)}

\* ------------------------------------------------ enum_from_list.py config
MAX_THREADS == 50
ENUM_HTTP_PORTS == {80, 8000, 8008, 8080, 8888}
\* Port tokens of the targets test_port is run on: 80, 443, 22 and a word.
EnumPortTokens == {<<"8", "0">>, <<"4", "4", "3">>, <<"2", "2">>, <<"a">>}

Row(host, port, status, info, extra) ==
    [host |-> host, port |-> port, status |-> status, info |-> info,
     extra |-> extra]

EnumReturned(row, conn) ==
    [st |-> "returned", res |-> row, exc |-> "", connected |-> conn]

\* test_port: int(port) is outside the try block. Inside it, every branch
\* returns a row; an exception of the connect or of the TLS handshake reaches
\* the outer except clause, which returns a CLOSED row.
TestPort(host, token) ==
    IF ~IntParses(token)
    THEN {[st |-> "raised", res |-> Target(host, token),
           exc |-> "ValueError", connected |-> FALSE]}
    ELSE LET port == IntValue(token) IN
         {EnumReturned(Row(host, port, "CLOSED", "ECONNREFUSED", ""), FALSE)}
         \cup
         (IF port \in ENUM_HTTP_PORTS
          THEN {EnumReturned(Row(host, port, "OPEN", "HTTP 200 OK", "url"),
                             TRUE),
                EnumReturned(Row(host, port, "OPEN", "HTTP Fail", ""), TRUE)}
          ELSE IF port = 443
          THEN {EnumReturned(Row(host, port, "OPEN", "HTTPS", "subject"),
                             TRUE),
                EnumReturned(Row(host, port, "CLOSED", "SSLError", ""), TRUE)}
          ELSE {EnumReturned(Row(host, port, "OPEN", "Banner", ""), TRUE),
                EnumReturned(Row(host, port, "OPEN", "No banner", ""), TRUE)})

\* ------------------------------------------------------- the thread pools
RECURSIVE SeqsUpTo(_, _)
SeqsUpTo(S, n) ==
    IF n = 0 THEN {<<>>}
    ELSE LET shorter == SeqsUpTo(S, n - 1)
         IN shorter \cup {Append(q, x) : q \in shorter, x \in S}

\* parse_input_file appends without looking at the list: repeats can occur.
TargetLists == SeqsUpTo({Target(h, p) : h \in Hosts, p \in Ports}, MaxTargets)
EnumTargetLists ==
    SeqsUpTo({Target(h, p) : h \in Hosts, p \in EnumPortTokens}, MaxTargets)

ArgSets == [fuzz : BOOLEAN, wordlist : BOOLEAN, sqlmap : BOOLEAN,
            threads : 0..MaxThreads]

Queued(t) == [st |-> "queued", res |-> t, exc |-> "", connected |-> FALSE]

\* max_workers of the ThreadPoolExecutor
PoolSize == IF script = "enum" THEN MAX_THREADS ELSE args.threads

Running == {i \in DOMAIN fut : fut[i].st = "running"}
Finished == {i \in DOMAIN fut : fut[i].st \in {"returned", "raised"}}
Collected == {order[k] : k \in DOMAIN order}

\* State of main once the parser has returned the target list.
Init ==
    /\ script \in Scripts
    /\ mainPc = "parsed"
    /\ nread = 0
    /\ \/ script = "port_recon" /\ targets \in TargetLists /\ args \in ArgSets
       \/ script = "enum" /\ targets \in EnumTargetLists /\ args = NoArgs
    /\ PoolIdle /\ CallIdle

\* MainSubmit without the test of args.fuzz and args.wordlist.
MainSubmitNoWordlistCheck ==
    /\ script = "port_recon" /\ mainPc = "parsed"
    /\ IF targets = <<>>
       THEN mainPc' = "returned" /\ fut' = fut /\ outdir' = outdir
       ELSE /\ outdir' = TRUE
            /\ IF args.threads <= 0
               THEN mainPc' = "raised" /\ fut' = fut
               ELSE /\ mainPc' = "pool"
                    /\ fut' = [i \in DOMAIN targets |-> Queued(targets[i])]
    /\ UNCHANGED <<script, targets, nread, args, summary, order, report,
                   CallVars>>

\* port-recon.py main from the target check to the submission of every
\* target: the two early returns, ensure_outdir, the executor, the submits.
MainSubmit ==
    /\ script = "port_recon" /\ mainPc = "parsed"
    /\ IF targets = <<>> \/ (args.fuzz /\ ~args.wordlist)
       THEN mainPc' = "returned" /\ fut' = fut /\ outdir' = outdir
       ELSE /\ outdir' = TRUE               \* ensure_outdir
            /\ IF args.threads <= 0          \* ThreadPoolExecutor: ValueError
               THEN mainPc' = "raised" /\ fut' = fut
               ELSE /\ mainPc' = "pool"
                    /\ fut' = [i \in DOMAIN targets |-> Queued(targets[i])]
    /\ UNCHANGED <<script, targets, nread, args, summary, order, report,
                   CallVars>>

\* enum_from_list.py main: the executor and executor.map over the targets.
EnumSubmit ==
    /\ script = "enum" /\ mainPc = "parsed"
    /\ mainPc' = "pool"
    /\ fut' = [i \in DOMAIN targets |-> Queued(targets[i])]
    /\ UNCHANGED <<script, outdir, targets, nread, args, summary, order, report,
                   CallVars>>

\* WorkerStart with a thread per work item, whatever max_workers is.
WorkerStartUnbounded(i) ==
    /\ mainPc \in {"pool", "unwinding"}
    /\ i \in DOMAIN fut /\ fut[i].st = "queued"
    /\ fut' = [fut EXCEPT ![i].st = "running"]
    /\ UNCHANGED <<script, outdir, mainPc, targets, nread, args, summary, order,
                   report, CallVars>>

\* A worker thread takes the oldest queued work item; the executor never
\* has more than max_workers threads.
WorkerStart(i) ==
    /\ mainPc \in {"pool", "unwinding"}
    /\ i \in DOMAIN fut /\ fut[i].st = "queued"
    /\ \A j \in 1..(i - 1) : fut[j].st # "queued"
    /\ Cardinality(Running) < PoolSize
    /\ fut' = [fut EXCEPT ![i].st = "running"]
    /\ UNCHANGED <<script, outdir, mainPc, targets, nread, args, summary, order,
                   report, CallVars>>

\* The call of handle_target or test_port ends: its future is set.
WorkerFinish(i) ==
    /\ i \in DOMAIN fut /\ fut[i].st = "running"
    /\ \E o \in (IF script = "enum"
                 THEN TestPort(targets[i].host, targets[i].port)
                 ELSE HandleTarget(targets[i].host, targets[i].port, args)) :
          fut' = [fut EXCEPT ![i] = o]
    /\ UNCHANGED <<script, outdir, mainPc, targets, nread, args, summary, order,
                   report, CallVars>>

\* FallbackRow without the text of the exception.
FallbackRowNoError(h, p, msg) == NewResult(h, p)

\* The row main builds when fut.result() raises.
FallbackRow(h, p, msg) ==
    [NewResult(h, p) EXCEPT !.error = msg]

\* One iteration of "for fut in as_completed(futures)": any finished future
\* not yet handed out (the futures finished before as_completed starts come
\* out of a set, the later ones as they finish).
MainCollect(i) ==
    /\ script = "port_recon" /\ mainPc = "pool"
    /\ i \in Finished \ Collected
    /\ summary' = Append(summary,
                         IF fut[i].st = "raised"
                         THEN FallbackRow(targets[i].host, targets[i].port,
                                          fut[i].exc)
                         ELSE fut[i].res)
    /\ order' = Append(order, i)
    /\ UNCHANGED <<script, outdir, mainPc, targets, nread, args, fut, report,
                   CallVars>>

\* MainLeavePool that stops waiting after the first collected future.
MainLeavePoolEarly ==
    /\ script = "port_recon" /\ mainPc = "pool"
    /\ Collected # {}
    /\ mainPc' = "write"
    /\ UNCHANGED <<script, outdir, targets, nread, args, fut, summary, order, report,
                   CallVars>>

\* as_completed is exhausted and the with block is left.
MainLeavePool ==
    /\ script = "port_recon" /\ mainPc = "pool"
    /\ Collected = DOMAIN fut
    /\ mainPc' = "write"
    /\ UNCHANGED <<script, outdir, targets, nread, args, fut, summary, order, report,
                   CallVars>>

CsvRow(row) ==
    [row EXCEPT !.nmap = Basename(row.nmap), !.httpx = Basename(row.httpx),
                !.ffuf = Basename(row.ffuf)]

\* The summary CSV: one writerow per element of summary, in list order.
WriteCsv ==
    /\ script = "port_recon" /\ mainPc = "write"
    /\ report' = Written([k \in DOMAIN summary |-> CsvRow(summary[k])])
    /\ mainPc' = "done"
    /\ UNCHANGED <<script, outdir, targets, nread, args, fut, summary, order,
                   CallVars>>

\* One iteration of "for res in executor.map(...)": the results come in
\* submission order; a call that raised re-raises in main, which cancels the
\* futures still queued.
EnumCollect ==
    /\ script = "enum" /\ mainPc = "pool"
    /\ LET i == Len(order) + 1 IN
       /\ i \in Finished
       /\ IF fut[i].st = "raised"
          THEN /\ mainPc' = "unwinding"
               /\ fut' = [j \in DOMAIN fut |->
                            IF fut[j].st = "queued"
                            THEN [fut[j] EXCEPT !.st = "cancelled"]
                            ELSE fut[j]]
               /\ UNCHANGED <<summary, order>>
          ELSE /\ summary' = Append(summary, fut[i].res)
               /\ order' = Append(order, i)
               /\ UNCHANGED <<mainPc, fut>>
    /\ UNCHANGED <<script, outdir, targets, nread, args, report, CallVars>>

\* The with block is left: shutdown(wait=True) waits for the running calls.
EnumLeavePool ==
    /\ script = "enum" /\ mainPc \in {"pool", "unwinding"}
    /\ Running = {}
    /\ \/ mainPc = "pool" /\ Collected = DOMAIN fut /\ mainPc' = "write"
       \/ mainPc = "unwinding" /\ mainPc' = "raised"
    /\ UNCHANGED <<script, outdir, targets, nread, args, fut, summary, order, report,
                   CallVars>>

\* The results file: one line per element of results.
EnumWriteResults ==
    /\ script = "enum" /\ mainPc = "write"
    /\ report' = Written(summary)
    /\ mainPc' = "done"
    /\ UNCHANGED <<script, outdir, targets, nread, args, fut, summary, order,
                   CallVars>>

Next ==
    \/ MainSubmit
    \/ EnumSubmit
    \/ \E i \in 1..(MaxTargets + 1) : WorkerStart(i)
    \/ \E i \in 1..(MaxTargets + 1) : WorkerFinish(i)
    \/ \E i \in 1..(MaxTargets + 1) : MainCollect(i)
    \/ MainLeavePool
    \/ WriteCsv
    \/ EnumCollect
    \/ EnumLeavePool
    \/ EnumWriteResults

Spec == Init /\ [][Next]_vars

\* ------------------------------- handle_target and test_port, step by step
\* One call of handle_target or of test_port as a worker runs it, for the
\* target targets[1] and the options main passes on (port-recon.py main has
\* returned before the pool when --fuzz comes without --wordlist and raised
\* when there is no worker thread; it has created the output directory).

\* Port tokens test_port is stepped through: those of EnumPortTokens and 8443.
TestPortTokens == EnumPortTokens \cup {<<"8", "4", "4", "3">>}

InitTarget ==
    /\ script \in Scripts
    /\ mainPc = "pool"
    /\ nread = 0
    /\ fut = NoFutures /\ summary = <<>> /\ order = <<>> /\ report = NotWritten
    /\ \/ /\ script = "port_recon"
          /\ targets \in {<<Target(h, p)>> : h \in Hosts, p \in Ports}
          /\ args \in {a \in ArgSets :
                         a.threads > 0 /\ ~(a.fuzz /\ ~a.wordlist)}
          /\ outdir = TRUE
          /\ hpc = "call"
       \/ /\ script = "enum"
          /\ targets \in {<<Target(h, t)>> : h \in Hosts, t \in TestPortTokens}
          /\ args = NoArgs
          /\ outdir = FALSE
          /\ hpc = "test_port"
    /\ result = NoResult /\ sock = "none" /\ invoked = <<>>
    /\ events = <<>> /\ cands = <<>>

MainVars == <<script, mainPc, targets, nread, args, PoolVars>>

\* hostdir, os.makedirs and the initial result dict; makedirs can raise.
MakeDirs ==
    /\ hpc = "call"
    /\ \/ /\ hpc' = "connect"
          /\ result' = NewResult(targets[1].host, targets[1].port)
       \/ /\ hpc' = "raised"
          /\ result' = result
    /\ UNCHANGED <<MainVars, sock, invoked, events, cands>>

\* Whether a candidate socket of tcp_connect is open and not handed over.
NoOpenCandidate == \A k \in DOMAIN cands : cands[k] # "open"

\* tcp_connect, one iteration of the for loop up to the connect:
\* s = socket.socket(...); s.settimeout(timeout). socket.socket() is outside
\* the try block, so it can raise out of tcp_connect and of handle_target.
TcpSocket ==
    /\ hpc = "connect"
    /\ Len(cands) < MaxCandidates
    /\ NoOpenCandidate
    /\ \/ cands' = Append(cands, "open") /\ hpc' = hpc
       \/ cands' = cands /\ hpc' = "raised"
    /\ UNCHANGED <<MainVars, result, sock, invoked, events>>

\* tcp_connect, the rest of the iteration: s.connect(sockaddr) succeeds and
\* the socket is returned (handle_target sets result["open"]), or it raises
\* and the socket is closed before the next candidate.
TcpConnect ==
    /\ hpc = "connect"
    /\ cands # <<>> /\ cands[Len(cands)] = "open"
    /\ \/ /\ cands' = [cands EXCEPT ![Len(cands)] = "returned"]
          /\ sock' = "open"
          /\ result' = [result EXCEPT !.open = TRUE]
          /\ hpc' = "banner"
       \/ /\ cands' = [cands EXCEPT ![Len(cands)] = "closed"]
          /\ UNCHANGED <<sock, result, hpc>>
    /\ UNCHANGED <<MainVars, invoked, events>>

\* TcpGiveUp going on into the try block of handle_target.
TcpGiveUpFallsThrough ==
    /\ hpc = "connect"
    /\ NoOpenCandidate
    /\ hpc' = "banner"
    /\ UNCHANGED <<MainVars, result, sock, invoked, events, cands>>

\* TcpGiveUp starting the call again.
TcpGiveUpRetry ==
    /\ hpc = "connect"
    /\ NoOpenCandidate
    /\ hpc' = "call"
    /\ UNCHANGED <<MainVars, result, sock, invoked, events, cands>>

\* tcp_connect returns (False, None): getaddrinfo raised, or every candidate
\* address failed; handle_target returns the result dict as it is.
TcpGiveUp ==
    /\ hpc = "connect"
    /\ NoOpenCandidate
    /\ hpc' = "returned"
    /\ UNCHANGED <<MainVars, result, sock, invoked, events, cands>>

\* A step of the try block: on an exception the except clause runs and the
\* finally clause is next.
TryStep(from, to, outcomes) ==
    /\ hpc = from
    /\ \E o \in outcomes :
          /\ invoked' = invoked \o o.ran
          /\ events' = events \o o.evs
          /\ IF o.exc = ""
             THEN hpc' = to /\ result' = o.res
             ELSE hpc' = "finally" /\ result' = ExceptClause(o.res, o.exc)
    /\ UNCHANGED <<MainVars, sock, cands>>

GrabBanner == TryStep("banner", "httpx", BannerStep(result))
StepHttpx == TryStep("httpx", "nmap", HttpxStep(result))
StepNmap == TryStep("nmap", "ffuf", NmapStep(result))
StepFfuf == TryStep("ffuf", "sqlmap", FfufStep(result, args))
StepSqlmap == TryStep("sqlmap", "finally", SqlmapStep(result, args))

\* FinallyClose leaving the socket as it is.
FinallyNoClose ==
    /\ hpc = "finally"
    /\ hpc' = "returned"
    /\ UNCHANGED <<MainVars, result, sock, invoked, events, cands>>

\* finally: shutdown and close_socket; then return result
FinallyClose ==
    /\ hpc = "finally"
    /\ sock' = "closed"
    /\ hpc' = "returned"
    /\ UNCHANGED <<MainVars, result, invoked, events, cands>>

\* test_port, its first statement: port = int(port), outside the try block.
TestPortInt ==
    /\ hpc = "test_port"
    /\ hpc' = IF IntParses(targets[1].port) THEN "create_connection"
                                            ELSE "raised"
    /\ UNCHANGED <<MainVars, result, sock, invoked, events, cands>>

\* The row test_port returns for the target of the call.
TestPortRow(status, info, extra) ==
    Row(targets[1].host, IntValue(targets[1].port), status, info, extra)

\* The branch of test_port a connected target goes to: the if / elif / else
\* on the port.
Classification(port) ==
    IF port \in ENUM_HTTP_PORTS THEN "http_get"
    ELSE IF port = 443 THEN "tls" ELSE "recv"

\* with socket.create_connection((host, port), timeout=TIMEOUT) as sock:
\* an exception reaches the outer except clause, which returns a CLOSED row.
CreateConnection ==
    /\ hpc = "create_connection"
    /\ \/ /\ sock' = "open"
          /\ hpc' = Classification(IntValue(targets[1].port))
          /\ result' = result
       \/ /\ sock' = sock
          /\ hpc' = "returned"
          /\ result' = TestPortRow("CLOSED", "ECONNREFUSED", "")
    /\ UNCHANGED <<MainVars, invoked, events, cands>>

\* A branch of test_port ends with a return statement inside the with block.
Branch(at, rows) ==
    /\ hpc = at
    /\ result' \in rows
    /\ hpc' = "with_exit"
    /\ UNCHANGED <<MainVars, sock, invoked, events, cands>>

\* requests.get(...), over a connection of its own
HttpGet ==
    Branch("http_get", {TestPortRow("OPEN", "HTTP 200 OK", "url"),
                        TestPortRow("OPEN", "HTTP Fail", "")})

\* context.wrap_socket(sock, ...) and getpeercert(); an exception reaches the
\* outer except clause
TlsHandshake ==
    Branch("tls", {TestPortRow("OPEN", "HTTPS", "subject"),
                   TestPortRow("CLOSED", "SSLError", "")})

\* sock.recv(1024)
RecvBanner ==
    Branch("recv", {TestPortRow("OPEN", "Banner", ""),
                    TestPortRow("OPEN", "No banner", "")})

\* The with block is left, by a return or by an exception: the socket is
\* closed.
WithExit ==
    /\ hpc = "with_exit"
    /\ sock' = "closed"
    /\ hpc' = "returned"
    /\ UNCHANGED <<MainVars, result, invoked, events, cands>>

NextTarget ==
    \/ MakeDirs
    \/ TcpSocket
    \/ TcpConnect
    \/ TcpGiveUp
    \/ GrabBanner
    \/ StepHttpx
    \/ StepNmap
    \/ StepFfuf
    \/ StepSqlmap
    \/ FinallyClose
    \/ TestPortInt
    \/ CreateConnection
    \/ HttpGet
    \/ TlsHandshake
    \/ RecvBanner
    \/ WithExit

SpecTarget == InitTarget /\ [][NextTarget]_vars

\* --------------------------------------- port-recon.py main, a whole run
\* A run of port-recon.py main from the first line of the input file to its
\* end, under fair scheduling: the main thread goes on while it has a step to
\* take, a worker thread takes a queued target when the pool has room, and
\* every call of handle_target returns or raises in the end (every blocking
\* step in it has a timeout).

\* Lines of the input file such a run is followed on: a target, a comment,
\* and a slash followed by a colon.
LiveLines == {<<"a", ":", "1">>, <<"#">>, <<"/", ":">>}

InitLive ==
    /\ script = "port_recon"
    /\ mainPc = "parse"
    /\ targets = <<>>
    /\ nread = 0
    /\ args \in ArgSets
    /\ PoolIdle /\ CallIdle

\* The steps of the main thread.
MainThread ==
    \/ \E raw \in LiveLines : ParseInputFileLine(raw)
    \/ EndOfInput
    \/ MainSubmit
    \/ \E i \in 1..MaxLines : MainCollect(i)
    \/ MainLeavePool
    \/ WriteCsv

NextLive ==
    \/ MainThread
    \/ \E i \in 1..MaxLines : WorkerStart(i)
    \/ \E i \in 1..MaxLines : WorkerFinish(i)

Fairness ==
    /\ WF_vars(MainThread)
    /\ \A i \in 1..MaxLines : WF_vars(WorkerStart(i)) /\ WF_vars(WorkerFinish(i))

SpecLive == InitLive /\ [][NextLive]_vars /\ Fairness

\* ================================================================ claims
IsPortRecon == script = "port_recon"
IsEnum == script = "enum"

\* The row main holds for future i once it is collected.
RowOf(i) ==
    IF fut[i].st = "raised"
    THEN FallbackRow(targets[i].host, targets[i].port, fut[i].exc)
    ELSE fut[i].res

\* C1: in port-recon.py the rows of the summary CSV are in the order of the
\* targets returned by parse_input_file, whatever order the futures
\* complete in.
C1_ReportInTargetOrder ==
    (IsPortRecon /\ report.written) =>
        /\ Len(report.rows) = Len(targets)
        /\ \A k \in DOMAIN report.rows :
              /\ report.rows[k].host = targets[k].host
              /\ report.rows[k].port = targets[k].port

C3_FaultyRowIsClosed ==
    IsPortRecon =>
        \A k \in DOMAIN summary :
            fut[order[k]].exc # "" =>
                /\ summary[k].open = FALSE
                /\ summary[k].error # ""

\* C3 (amended): an exception in handle_target for one target does not stop
\* main: the faulty target's row carries the text of the exception in its
\* error field, with open=False when the exception came before the connect
\* succeeded and open=True when it came after; every other target's row is
\* the dict its own call returned; main never aborts inside the pool and the
\* CSV holds a row for every target.
C3_FaultIsolated ==
    IsPortRecon =>
        /\ \A k \in DOMAIN summary :
              LET i == order[k] IN
              /\ summary[k].host = targets[i].host
              /\ summary[k].port = targets[i].port
              /\ fut[i].exc # "" =>
                    /\ summary[k].error = fut[i].exc
                    /\ summary[k].open = fut[i].connected
              /\ fut[i].exc = "" =>
                    /\ summary[k] = fut[i].res
                    /\ summary[k].error = ""
        /\ (mainPc = "raised" => fut = NoFutures)
        /\ (mainPc = "done" =>
              /\ Len(report.rows) = Len(targets)
              /\ \A i \in DOMAIN targets : \E k \in DOMAIN report.rows :
                    order[k] = i /\ report.rows[k] = CsvRow(RowOf(i)))

\* C3 witness: the CSV is written for a run in which one target's call
\* raised an exception and another target's call returned an open result.
C3_Witness ==
    /\ IsPortRecon /\ mainPc = "done"
    /\ \E i, j \in DOMAIN fut :
          /\ i # j
          /\ fut[i].exc # ""
          /\ fut[j].exc = "" /\ fut[j].res.open

\* C4: in enum_from_list.py test_port returns a row for every target and
\* never raises, so main's executor.map loop is never stopped by a target.
C4_TestPortNeverRaises ==
    IsEnum =>
        /\ \A i \in DOMAIN fut : fut[i].st # "raised"
        /\ mainPc \notin {"unwinding", "raised"}

\* C5: the summary CSV is written only after every submitted call has
\* finished, and holds exactly one row per submitted target, each row being
\* the result of that target's own call (or the fallback for its exception).
C5_OneRowPerTarget ==
    (IsPortRecon /\ report.written) =>
        /\ Finished = DOMAIN fut
        /\ Len(report.rows) = Len(targets)
        /\ Len(order) = Len(targets)
        /\ \A i \in DOMAIN targets :
              Cardinality({k \in DOMAIN order : order[k] = i}) = 1
        /\ \A k \in DOMAIN report.rows :
              report.rows[k] = CsvRow(RowOf(order[k]))

\* C5 witness: the CSV is written for a list of at least two targets.
C5_Witness ==
    IsPortRecon /\ report.written /\ Len(targets) >= 2

\* C6: parse_input_file returns a list without repeated (host, port) pairs.
C6_NoRepeatedTargets ==
    (IsPortRecon /\ mainPc \in {"parse", "parsed"}) =>
        \A i, j \in DOMAIN targets : i # j => targets[i] # targets[j]

\* C7: neither parser raises, whatever the input lines are.
C7_ParsingNeverRaises == mainPc # "raised"

\* C8: every target returned by parse_input_file has a port in 1..65535.
C8_PortInRange ==
    (IsPortRecon /\ mainPc \in {"parse", "parsed"}) =>
        \A i \in DOMAIN targets : targets[i].port \in 1..65535

\* C9: in both scripts a target is reported OPEN exactly when the TCP
\* connect to it succeeded.
C9_OpenIffConnected ==
    \A i \in DOMAIN fut :
        fut[i].st = "returned" =>
            ((IF IsEnum THEN fut[i].res.status = "OPEN" ELSE fut[i].res.open)
                <=> fut[i].connected)

InvokedSet == {invoked[k] : k \in DOMAIN invoked}

\* C10 (as stated): every external tool run is for an open target on an
\* HTTP-like port with its deep-scan option enabled; on a non-HTTP port or
\* with no option enabled no tool runs.
C10_ToolsOnlyWhenEnabled ==
    invoked # <<>> =>
        /\ result.open
        /\ result.port \in HTTP_PORTS
        /\ args.fuzz \/ args.sqlmap
        /\ "ffuf" \in InvokedSet => args.fuzz
        /\ "sqlmap" \in InvokedSet => args.sqlmap

\* C10 (amended): every external tool run is for a target confirmed open;
\* httpx, ffuf and sqlmap run only on a port of HTTP_PORTS; ffuf only with
\* --fuzz and a wordlist, sqlmap only with --sqlmap and after httpx; nmap
\* needs neither an HTTP port nor an option, httpx needs no option.
C10_ToolGating ==
    invoked # <<>> =>
        /\ result.open
        /\ InvokedSet \subseteq Tools
        /\ InvokedSet \cap {"httpx", "ffuf", "sqlmap"} # {} =>
              result.port \in HTTP_PORTS
        /\ "ffuf" \in InvokedSet => (args.fuzz /\ args.wordlist)
        /\ "sqlmap" \in InvokedSet =>
              (args.sqlmap /\ "httpx" \in InvokedSet)
        /\ (~args.fuzz /\ ~args.sqlmap) =>
              InvokedSet \subseteq {"nmap", "httpx"}
        /\ result.port \notin HTTP_PORTS => InvokedSet = {"nmap"}

\* C10 witness: a call that has returned after running all four tools.
C10_Witness ==
    hpc = "returned" /\ InvokedSet = Tools

\* C11: in handle_target no external tool is started for a target whose TCP
\* connect failed: whenever a tool has been started, tcp_connect has returned
\* a connected socket for the target before; and a target returned with
\* open=False has empty banner, nmap, httpx, ffuf and sqlmap fields.
C11_NoToolWithoutConnect ==
    IsPortRecon =>
        /\ invoked # <<>> =>
              /\ sock # "none"
              /\ \E k \in DOMAIN cands : cands[k] = "returned"
              /\ result.open
        /\ (hpc = "raised" \/ sock = "none") => (invoked = <<>> /\ events = <<>>)
        /\ (hpc = "returned" /\ ~result.open) =>
              /\ result = NewResult(targets[1].host, targets[1].port)
              /\ result.banner = "" /\ result.nmap = NoFile
              /\ result.httpx = NoFile /\ result.ffuf = NoFile
              /\ result.sqlmap = <<>>

\* C11 witness: a call that has returned open=False after every candidate
\* address failed.
C11_Witness ==
    /\ IsPortRecon /\ hpc = "returned" /\ ~result.open
    /\ Len(cands) = MaxCandidates

\* The runs of a tool, among the events of the call, that ended one of the
\* given ways.
RunsEnded(tool, hows) ==
    {k \in DOMAIN events : events[k].tool = tool /\ events[k].how \in hows}

\* C12: when a run of nmap, httpx or ffuf, or one run of sqlmap, exceeds its
\* timeout or exits with a non-zero code, the result field of that tool is
\* left empty (for sqlmap: the run adds no path), the target stays open=True
\* and its error field stays empty while the other steps go on.
C12_FailedRunLeavesFieldEmpty ==
    IsPortRecon =>
        /\ \A tool \in {"nmap", "httpx", "ffuf"} :
              RunsEnded(tool, {"nonzero", "timeout"}) # {} =>
                  /\ result[tool] = NoFile
                  /\ result.open
                  /\ hpc \notin {"finally", "returned"} => result.error = ""
        /\ RunsEnded("sqlmap", {"nonzero", "timeout"}) # {} =>
              /\ Len(result.sqlmap) = Cardinality(RunsEnded("sqlmap", {"exit0"}))
              /\ result.open
              /\ result.error = ""

\* A step of the call that found the binary of a tool absent from PATH.
FoundAbsent ==
    /\ Len(events') = Len(events) + 1
    /\ events'[Len(events')].how = "absent"

C14_AlwaysWritesReport ==
    <>(\/ args.fuzz /\ ~args.wordlist
       \/ /\ mainPc = "done" /\ report.written
          /\ Finished = DOMAIN fut
          /\ Len(report.rows) = Len(targets))

\* C15: when the connection attempt to a target fails, the row reported for
\* the target is CLOSED and carries a non-empty reason for the failure: the
\* info text in enum_from_list.py, the error field in port-recon.py.
C15_ClosedRowCarriesReason ==
    \A i \in DOMAIN fut :
        (fut[i].st = "returned" /\ ~fut[i].connected) =>
            IF IsEnum
            THEN fut[i].res.status = "CLOSED" /\ fut[i].res.info # ""
            ELSE ~fut[i].res.open /\ fut[i].res.error # ""

\* The files run_nmap, run_httpx and run_ffuf write for a target.
Artifacts(t) ==
    {OutFile(tool, t.host, t.port) : tool \in {"nmap", "httpx", "ffuf"}}

\* C16: two calls of handle_target that run at the same time never write the
\* same artifact file: the output paths of nmap, httpx and ffuf of any two
\* running calls are distinct.
C16_NoSharedArtifact ==
    IsPortRecon =>
        \A i, j \in Running :
            i # j => Artifacts(targets[i]) \cap Artifacts(targets[j]) = {}

\* C17: in test_port the classification of a connected target is chosen by
\* its port, first match wins: the HTTP GET probe for a port of
\* {80, 8000, 8008, 8080, 8443, 8888}, the TLS handshake for port 443, the
\* raw banner read for any other port; one of the three, on the open socket.
C17_ProbeChosenByPort ==
    (IsEnum /\ hpc \in {"http_get", "tls", "recv"}) =>
        LET port == IntValue(targets[1].port) IN
        /\ sock = "open"
        /\ hpc = IF port \in {80, 8000, 8008, 8080, 8443, 8888} THEN "http_get"
                 ELSE IF port = 443 THEN "tls"
                 ELSE "recv"

\* main has had no effect of scanning: no output directory, no target
\* submitted to the pool (so no probe and no tool run), no row, no report.
NoScanEffect ==
    /\ ~outdir
    /\ fut = NoFutures
    /\ summary = <<>>
    /\ ~report.written

FuzzWithoutWordlist == args.fuzz /\ ~args.wordlist

Terminal == {"returned", "raised"}

\* C19: every socket opened for a target is closed on every exit path: a
\* candidate socket of tcp_connect whose connect failed is closed before the
\* next candidate is created, the connected socket is closed whether the
\* steps after the connect return or raise, in handle_target and in
\* test_port alike; a call that has ended holds no open socket.
C19_NoSocketLeftOpen ==
    /\ hpc \in Terminal =>
          /\ sock # "open"
          /\ \A k \in DOMAIN cands : cands[k] # "open"
          /\ (\E k \in DOMAIN cands : cands[k] = "returned") => sock = "closed"
    /\ \A k \in DOMAIN cands :
          /\ cands[k] = "open" => (k = Len(cands) /\ hpc = "connect")
          /\ cands[k] = "returned" => (k = Len(cands) /\ sock # "none")
    /\ sock = "open" =>
          hpc \in {"banner", "httpx", "nmap", "ffuf", "sqlmap", "finally",
                   "http_get", "tls", "recv", "with_exit"}

\* C19 witness: a call of handle_target that has returned after a first
\* candidate address failed, a second one connected, and a step of the try
\* block raised.
C19_Witness ==
    /\ IsPortRecon /\ hpc = "returned"
    /\ Len(cands) = 2 /\ cands[1] = "closed" /\ cands[2] = "returned"
    /\ result.error # "" /\ sock = "closed"

\* The phase of the per-target state machine a position of handle_target
\* belongs to, in pipeline order: Pending (call), Connecting (connect),
\* Connected and Classifying (banner), Classified and DeepScanning (httpx,
\* nmap, ffuf, sqlmap, one tool after the other), the release of the socket
\* (finally), and the terminal states Closed, Done and Error.
Stage(pc) ==
    CASE pc = "call" -> 0
      [] pc = "connect" -> 1
      [] pc = "banner" -> 2
      [] pc = "httpx" -> 3
      [] pc = "nmap" -> 4
      [] pc = "ffuf" -> 5
      [] pc = "sqlmap" -> 6
      [] pc = "finally" -> 7
      [] pc \in Terminal -> 8

\* C20: a call of handle_target moves only forward through its phases: every
\* step goes to a later phase, but for the candidate loop of the connect,
\* which stays in Connecting; a call in a terminal state takes no further
\* step; a connected socket is never replaced by a new connect; nmap, httpx
\* and ffuf are started at most once, one after the other, and sqlmap is
\* started only after the httpx run of the target has returned its file.
C20_ForwardOnly ==
    [][IsPortRecon =>
          /\ hpc \notin Terminal
          /\ Stage(hpc') >= Stage(hpc)
          /\ (Stage(hpc') = Stage(hpc)) => hpc = "connect"
          /\ sock = "open" => sock' \in {"open", "closed"}
          /\ sock = "closed" => sock' = "closed"
          /\ \E tail \in SeqsUpTo(Tools, MaxUrls + 1) :
                invoked' = invoked \o tail
          /\ \A tool \in {"nmap", "httpx", "ffuf"} :
                Cardinality({k \in DOMAIN invoked' : invoked'[k] = tool}) <= 1
          /\ \A k \in DOMAIN invoked' :
                invoked'[k] = "sqlmap" =>
                    /\ \E j \in 1..(k - 1) : invoked'[j] = "httpx"
                    /\ result'.httpx # NoFile]_vars

\* C20 witness: a call that has returned after httpx, nmap, ffuf and sqlmap
\* ran in that order and each left its output.
C20_Witness ==
    /\ IsPortRecon /\ hpc = "returned"
    /\ invoked = <<"httpx", "nmap", "ffuf", "sqlmap">>
    /\ result.nmap # NoFile /\ result.ffuf # NoFile /\ result.sqlmap # <<>>

====
